---- MODULE Spec2Model ----
(***************************************************************************)
(* A model of the pruning core of SynCW: configuration (configs.py), the   *)
(* mask ranker, the sampler, the gradient engine with its output recorder, *)
(* the pruning strategies and the dispatcher (pruning.py).                 *)
(*                                                                         *)
(* Tensors are flattened: a tensor is a sequence of integers, a tensor map *)
(* (one tensor per prunable layer) a sequence of tensors indexed by the    *)
(* layer's position in net.modules().  Python strings are sequences of     *)
(* one-character strings, so that `in` is a real substring test.           *)
(***************************************************************************)
EXTENDS Integers, Sequences, FiniteSets, TLC

VARIABLES
    rk,         \* ranking_mask in isolation: its arguments and its last result
    coin,       \* coincide_mask in isolation: its arguments and its last result
    args,       \* the command line arguments init_config parses
    cfg,        \* the configuration (an EasyDict), None before init_config
    printed,    \* what init_config printed
    pc,         \* where the run is: start, configured, strategy, rounds, ranked, done, raised
    raised,     \* the exception that ended the run, "none" otherwise
    branch,     \* the branch Pruner took: dense, rank; effective for effective_masks_synflow
    call,       \* the strategy called and its arguments
    masks,      \* keep_masks of the running strategy, then the masks returned
    stratMasks, \* the masks the strategy returned, before any reordering
    perms,      \* the permutation torch.randperm drew for each layer
    ratioLog,   \* the keep ratios passed to ranking_mask, in call order
    epoch,      \* the round of Iterative_pruning / SynFlow
    netW,       \* the weights of the caller's network
    copyW,      \* the weights of the deep copy the strategy works on
    snapW,      \* copy_net_weights: the snapshot of the caller's weights
    calls,      \* how often data was sampled, gradients computed, scores ranked
    scoreW,     \* _w: the weights the last score loop multiplied the gradients by
    maskKeys,   \* the network whose layers key `masks`: old_net (the caller's) or net (the copy)
    ft,         \* fetch_data in isolation: its arguments, its loop and its result
    eng,        \* hessian_gradient_product in isolation: its groups, recorder and result
    sl          \* the score loops of the two strategies, side by side, on one layer

pruneVars == <<args, cfg, printed, pc, raised, branch, call, masks, stratMasks, perms,
               ratioLog, epoch, netW, copyW, snapW, calls, scoreW, maskKeys>>

vars == <<rk, coin, args, cfg, printed, pc, raised, branch, call, masks, stratMasks, perms,
          ratioLog, epoch, netW, copyW, snapW, calls, scoreW, maskKeys, ft, eng, sl>>

----------------------------------------------------------------------------
(* Bounds of the model *)

\* scores and gradients range over -MaxScore .. MaxScore
MaxScore == 1

\* ratios are k/RatioDen, k in 0 .. RatioDen
RatioDen == 3

\* the gradients the differentiation provider returns range over -1 .. MaxGrad
MaxGrad == 1

\* num_iters_prune ranges over 1 .. MaxRounds
MaxRounds == 2

\* the score loops are compared on gradient lists of 1 .. MaxScoreGroups entries
MaxScoreGroups == 2

----------------------------------------------------------------------------
(* The network: its prunable layers, in net.modules() order *)

\* number of weights of each prunable (Conv2d / Linear) layer
LayerSizes == <<2, 2>>

\* the kind of each prunable layer
LayerKinds == <<"Conv2d", "Linear">>

\* the weights of the caller's network
NetWeights == <<<<1, -2>>, <<2, -1>>>>

\* the values xavier_normal_ may give a weight
ReinitVals == {-1, 1}

Layers == 1 .. Len(LayerSizes)

Positions(l) == 1 .. LayerSizes[l]

\* all tensor maps (one tensor per prunable layer) with entries in vals
TensorMaps(vals) ==
    { t \in [Layers -> UNION { [1 .. LayerSizes[l] -> vals] : l \in Layers }] :
        \A l \in Layers : Len(t[l]) = LayerSizes[l] }

\* torch.ones_like(layer.weight.data) for every prunable layer
reset_mask == [l \in Layers |-> [i \in Positions(l) |-> 1]]

----------------------------------------------------------------------------
(* Tensor helpers *)

Abs(x) == IF x < 0 THEN -x ELSE x

RECURSIVE SumSeq(_)
SumSeq(s) == IF s = <<>> THEN 0 ELSE Head(s) + SumSeq(Tail(s))

RECURSIVE MinSeq(_)
MinSeq(s) == IF Len(s) = 1 THEN s[1]
             ELSE LET m == MinSeq(Tail(s)) IN IF s[1] < m THEN s[1] ELSE m

\* torch.cat([torch.flatten(x) for x in t.values()])
RECURSIVE FlattenFrom(_, _)
FlattenFrom(t, l) == IF l > Len(t) THEN <<>> ELSE t[l] \o FlattenFrom(t, l + 1)

Flatten(t) == FlattenFrom(t, 1)

\* torch.sum(x == 1) over one tensor
CountOnes(s) == Cardinality({ i \in DOMAIN s : s[i] = 1 })

RECURSIVE Pow(_, _)
Pow(b, e) == IF e = 0 THEN 1 ELSE b * Pow(b, e - 1)

RemoveAt(s, i) == SubSeq(s, 1, i - 1) \o SubSeq(s, i + 1, Len(s))

----------------------------------------------------------------------------
(* Python strings, as sequences of characters *)

\* needle in hay
Contains(hay, needle) ==
    \E i \in 1 .. (Len(hay) - Len(needle) + 1) :
        SubSeq(hay, i, i + Len(needle) - 1) = needle

LowerChar(c) ==
    CASE c = "G" -> "g"
      [] c = "S" -> "s"
      [] c = "F" -> "f"
      [] c = "P" -> "p"
      [] c = "C" -> "c"
      [] c = "W" -> "w"
      [] c = "N" -> "n"
      [] c = "I" -> "i"
      [] OTHER -> c

\* str.lower()
Lower(str) == [i \in DOMAIN str |-> LowerChar(str[i])]

S_dense == <<"d", "e", "n", "s", "e">>

S_rank == <<"r", "a", "n", "k">>

S_random == <<"r", "a", "n", "d", "o", "m">>

S_iterative == <<"i", "t", "e", "r", "a", "t", "i", "v", "e">>

S_rank_random == <<"r", "a", "n", "k", "/", "r", "a", "n", "d", "o", "m">>

S_rank_iterative == <<"r", "a", "n", "k", "/", "i", "t", "e", "r", "a", "t", "i", "v", "e">>

S_rank_iterative_random == <<"r", "a", "n", "k", "/", "i", "t", "e", "r", "a", "t", "i", "v", "e", "/", "r", "a", "n", "d", "o", "m">>

S_dense_random == <<"d", "e", "n", "s", "e", "/", "r", "a", "n", "d", "o", "m">>

S_coin == <<"c", "o", "i", "n">>

S_gcs == <<"g", "c", "s">>

S_gcs_group == <<"g", "c", "s", "-", "g", "r", "o", "u", "p">>

S_gcs_max == <<"g", "c", "s", "-", "m", "a", "x">>

S_grasp == <<"g", "r", "a", "s", "p">>

S_grass == <<"g", "r", "a", "s", "s">>

S_snip == <<"s", "n", "i", "p">>

S_syncw == <<"s", "y", "n", "c", "w">>

S_synflow == <<"s", "y", "n", "f", "l", "o", "w">>

S_SynFlow == <<"S", "y", "n", "F", "l", "o", "w">>

S_666 == <<"6", "6", "6">>

S_magnitude == <<"m", "a", "g", "n", "i", "t", "u", "d", "e">>

S_mnist == <<"m", "n", "i", "s", "t">>

S_cifar == <<"c", "i", "f", "a", "r">>

S_cifar10 == <<"c", "i", "f", "a", "r", "1", "0">>

S_cifar100 == <<"c", "i", "f", "a", "r", "1", "0", "0">>

S_imagenet == <<"i", "m", "a", "g", "e", "n", "e", "t">>

S_tiny_imagenet == <<"t", "i", "n", "y", "_", "i", "m", "a", "g", "e", "n", "e", "t">>

S_resnet == <<"r", "e", "s", "n", "e", "t">>

S_vgg == <<"v", "g", "g">>

S_lenet == <<"l", "e", "n", "e", "t">>

----------------------------------------------------------------------------
(* Keep ratios.  A keep ratio is the real number (num/den)^(k/n), kept     *)
(* exactly as the record [num, den, k, n]; (1 - r) is [den - rnum, den, 1, *)
(* 1].                                                                     *)

Ratio(num, den) == [num |-> num, den |-> den, k |-> 1, n |-> 1]

\* x <= y, for keep ratios with the same root n
RatioLeq(x, y) == Pow(x.num, x.k) * Pow(y.den, y.k) <= Pow(y.num, y.k) * Pow(x.den, x.k)

RatioEq(x, y) == RatioLeq(x, y) /\ RatioLeq(y, x)

\* a mutant of NumParams: the ratio read as the fraction to remove
NumParamsToRemove(len, kr) ==
    CHOOSE r \in 0 .. len :
        /\ Pow(len - r, kr.n) * Pow(kr.den, kr.k) <= Pow(len, kr.n) * Pow(kr.num, kr.k)
        /\ \A r2 \in 0 .. len :
              Pow(len - r2, kr.n) * Pow(kr.den, kr.k) <= Pow(len, kr.n) * Pow(kr.num, kr.k)
                 => r <= r2

\* int(len(all_scores) * keep_ratio): the largest m with m <= len * (num/den)^(k/n),
\* that is m^n * den^k <= len^n * num^k
NumParams(len, kr) ==
    CHOOSE m \in 0 .. len :
        /\ Pow(m, kr.n) * Pow(kr.den, kr.k) <= Pow(len, kr.n) * Pow(kr.num, kr.k)
        /\ \A m2 \in 0 .. len :
              Pow(m2, kr.n) * Pow(kr.den, kr.k) <= Pow(len, kr.n) * Pow(kr.num, kr.k)
                 => m2 <= m


----------------------------------------------------------------------------
(* ranking_mask *)

\* python None
None == <<>>

\* norm_factor = |sum(all_scores)| + eps (eps = 1e-10, smaller than any
\* difference of two scores), or ones_like when normalize is off; kept as
\* int + eps * 1e-10
NormFactor(all, normalize) ==
    IF normalize THEN [int |-> Abs(SumSeq(all)), eps |-> 1]
                 ELSE [int |-> 1, eps |-> 0]

NormPositive(nf) == nf.int > 0 \/ (nf.int = 0 /\ nf.eps > 0)

\* a / norm_factor >= b / norm_factor
DivGeq(a, b, nf) == IF NormPositive(nf) THEN a >= b ELSE a <= b

\* a mutant of DivGeq: strict comparison
DivGt(a, b, nf) == IF NormPositive(nf) THEN a > b ELSE a < b

\* torch.topk(all_scores, k) after all_scores.div_(norm_factor): the k
\* largest values, largest first
RECURSIVE TopK(_, _, _)
TopK(s, k, nf) ==
    IF k = 0 THEN <<>>
    ELSE LET i == CHOOSE i \in DOMAIN s : \A j \in DOMAIN s : DivGeq(s[i], s[j], nf)
         IN  <<s[i]>> \o TopK(RemoveAt(s, i), k - 1, nf)

\* scores[m][oir_mask[m] == 0] = min_score, for every layer
ExcludePruned(scores, oir_mask) ==
    IF oir_mask = None THEN scores
    ELSE LET min_score == MinSeq(Flatten(scores))
         IN  [l \in DOMAIN scores |->
                [i \in DOMAIN scores[l] |->
                    IF oir_mask[l][i] = 0 THEN min_score ELSE scores[l][i]]]

\* a mutant of KeepEntry: the threshold itself is not kept
KeepEntryStrict(g, acceptable_score, nf) == IF DivGt(g, acceptable_score, nf) THEN 1 ELSE 0

\* one layer's mask entry: ((g / norm_factor) >= acceptable_score).float()
KeepEntry(g, acceptable_score, nf) == IF DivGeq(g, acceptable_score, nf) THEN 1 ELSE 0

\* one layer's mask entry in effective-rank mode: ((g / norm_factor) != 0).float()
EffEntry(g, nf) == IF g # 0 THEN 1 ELSE 0

\* ranking_mask(scores, keep_ratio, normalize, eff_rank, verbose=2, oir_mask):
\* the masks, the threshold (as the score it was before the division) and
\* the scores as the call leaves them; an empty top-k makes threshold[-1] raise
ranking_mask(scores, keep_ratio, normalize, eff_rank, oir_mask) ==
    LET sc         == ExcludePruned(scores, oir_mask)
        all_scores == Flatten(sc)
        nf         == NormFactor(all_scores, normalize)
        num        == NumParams(Len(all_scores), keep_ratio)
        threshold  == TopK(all_scores, num, nf)
    IN  IF num = 0
        THEN [raised |-> "IndexError", masks |-> None, threshold |-> 0, scores |-> sc]
        ELSE [raised |-> "none",
              masks  |-> [l \in DOMAIN sc |->
                            [i \in DOMAIN sc[l] |->
                                IF eff_rank THEN EffEntry(sc[l][i], nf)
                                ELSE KeepEntry(sc[l][i], threshold[num], nf)]],
              threshold |-> threshold[num],
              scores |-> sc]

----------------------------------------------------------------------------
(* init_config: the command line arguments to the configuration *)

\* the default that marks an argument as not given
NotGiven == 666

\* the number of pruning rounds set before the arguments are read
DefaultItersPrune == 100

\* the group count used when the requested one is refused
FallbackGroups == 2

\* the class count the requested group count is tested against
GroupDivisor == 10

\* config.key = value (an EasyDict: a missing key raises AttributeError)
Set(config, key, value) == (key :> value) @@ config

Has(config, key) == key \in DOMAIN config

\* the data/gradient/score modes and group count of one algorithm
Preset(config, data_mode, grad_mode, score_mode, num_group) ==
    Set(Set(Set(Set(config, "data_mode", data_mode), "grad_mode", grad_mode),
            "score_mode", score_mode), "num_group", num_group)

\* the class count and sampling defaults of the dataset and network
DatasetDefaults(config) ==
    IF Contains(config.dataset, S_mnist) THEN Set(config, "classe", 10)
    ELSE IF Contains(config.dataset, S_cifar) THEN
        IF config.dataset = S_cifar10 THEN Set(config, "classe", 10)
        ELSE IF Contains(config.network, S_resnet)
             THEN Set(Set(Set(config, "classe", 100), "samples_per_class", 10), "num_iters", 2)
             ELSE Set(config, "classe", 100)
    ELSE IF Contains(config.dataset, S_imagenet) THEN
        IF Contains(config.network, S_vgg)
        THEN Set(Set(Set(config, "classe", 200), "samples_per_class", 5), "num_iters", 2)
        ELSE IF Contains(config.network, S_resnet)
             THEN Set(Set(Set(config, "classe", 200), "samples_per_class", 1), "num_iters", 10)
             ELSE Set(config, "classe", 200)
    ELSE config

\* the names the rank_algo chain recognises, compared after lower()
RecognizedAlgos == {S_gcs, S_gcs_group, S_gcs_max, S_grasp, S_grass, S_snip, S_syncw, S_synflow}

\* a mutant of UnknownAlgoMode: the requested prune_mode is kept
UnknownAlgoKeepMode(prune_mode) == prune_mode

\* the prune_mode set when rank_algo is not recognised: 'dense', no pruning
UnknownAlgoMode(prune_mode) == S_dense

\* the rank_algo block: the presets of the algorithm, or the fall back to dense
AlgoPresets(config, rank_algo) ==
    LET algo == Lower(rank_algo) IN
    IF algo = S_gcs THEN Preset(config, 1, 2, 2, 2)
    ELSE IF algo = S_gcs_group THEN Preset(config, 1, 2, 4, 5)
    ELSE IF algo = S_gcs_max THEN Preset(config, 1, 4, 4, 5)
    ELSE IF algo = S_grasp THEN Preset(config, 0, 0, 1, 1)
    ELSE IF algo = S_grass THEN Preset(config, 0, 0, 2, 1)
    ELSE IF algo = S_snip THEN Preset(config, 0, 3, 2, 1)
    ELSE IF algo = S_syncw THEN
        LET c == Set(Set(config, "data_mode", 0), "num_group", 1) IN
        IF Contains(config.network, S_resnet)
        THEN Set(Set(c, "grad_mode", 4), "score_mode", 1)
        ELSE IF Contains(config.network, S_vgg)
             THEN Set(Set(c, "grad_mode", 5), "score_mode", 1)
             ELSE c
    ELSE IF algo = S_synflow THEN config
    ELSE Set(config, "prune_mode", UnknownAlgoMode(config.prune_mode))

\* what the rank_algo block prints
AlgoPrints(rank_algo) ==
    IF Lower(rank_algo) \in RecognizedAlgos
    THEN <<"set pruning algorithm">>
    ELSE <<"choose one of: GCS, GCS-Group, GraSP, SNIP, SynFlow", "set pruning algorithm">>

\* the test of the requested group count: 10 % args.num_group == 0
GroupsAccepted(num_group, classe) == GroupDivisor % num_group = 0

\* an integer argument overrides the configuration unless it is the default
Override(config, key, value) == IF value # NotGiven THEN Set(config, key, value) ELSE config

\* init_config() on the arguments a: the configuration, what was printed,
\* and the exception raised if any
init_config(a) ==
    LET c0 == [dataset |-> a.dataset, network |-> a.network,
               target_ratio |-> Ratio(a.target, RatioDen), samples_per_class |-> 10]
        c1 == Set(DatasetDefaults(c0), "num_iters_prune", DefaultItersPrune)
        c2 == Set(Set(Set(Set(c1, "prune_mode", a.prune_mode), "train_mode", a.train_mode),
                      "dynamic", a.dynamic), "flag", a.flag)
        c3 == IF a.rank_algo # S_666
              THEN Set(AlgoPresets(c2, a.rank_algo), "rank_algo", a.rank_algo)
              ELSE c2
        p3 == IF a.rank_algo # S_666 THEN AlgoPrints(a.rank_algo) ELSE <<>>
        c4 == Override(Override(c3, "samples_per_class", a.samples_per),
                       "num_iters", a.num_iters)
        c5 == IF a.num_group # NotGiven
              THEN IF GroupsAccepted(a.num_group, c4.classe)
                   THEN Set(c4, "num_group", a.num_group)
                   ELSE Set(c4, "num_group", FallbackGroups)
              ELSE c4
        p5 == IF a.num_group # NotGiven /\ ~GroupsAccepted(a.num_group, c4.classe)
              THEN <<"num_group must be divisible by the number of tags">>
              ELSE <<>>
        c6 == Override(Override(Override(Override(c5, "data_mode", a.data_mode),
                                         "grad_mode", a.grad_mode),
                                "score_mode", a.score_mode),
                       "num_iters_prune", a.num_iters_prune)
    IN  IF a.num_group = 0
        THEN [raised |-> "ZeroDivisionError", config |-> c4, printed |-> p3]
        ELSE [raised |-> "none", config |-> c6, printed |-> p3 \o p5]

----------------------------------------------------------------------------
(* Tensor map arithmetic *)

\* a * b, elementwise, on every layer
Mul(a, b) == [l \in DOMAIN a |-> [i \in DOMAIN a[l] |-> a[l][i] * b[l][i]]]

\* a + b, elementwise, on every layer
Add(a, b) == [l \in DOMAIN a |-> [i \in DOMAIN a[l] |-> a[l][i] + b[l][i]]]

\* |a|, elementwise, on every layer
AbsMap(a) == [l \in DOMAIN a |-> [i \in DOMAIN a[l] |-> Abs(a[l][i])]]

----------------------------------------------------------------------------
(* The gradient engine, as far as the strategies see it: the differentiation *)
(* provider is outside the core, any gradient values may come back          *)

\* the values of one gradient entry: a negative one, zero, and the positive
\* ones up to MaxGrad
GradVals == {-1} \cup (0 .. MaxGrad)

\* the magnitudes of one gradient entry of SynFlow's pass: the round reads the
\* gradient only through torch.abs(_w * grad)
GradMagnitudes == 0 .. MaxGrad

\* the configuration fields hessian_gradient_product reads
EngineFields == {"data_mode", "grad_mode", "num_group", "samples_per_class", "classe", "flag"}

\* len(gradg_list): one entry per group, one per unordered pair of groups in grad_mode 2
EngineLen(config) ==
    IF config.grad_mode \in {0, 1, 3, 4, 5} THEN config.num_group
    ELSE IF config.grad_mode = 2 THEN (config.num_group * (config.num_group - 1)) \div 2
    ELSE 0

\* the gradg_list values one call of hessian_gradient_product may return
EngineOutputs(config) == [1 .. EngineLen(config) -> TensorMaps(GradVals)]

\* gradg_list after num_iters calls, the later results added entry by entry
RECURSIVE AccumOutputs(_, _)
AccumOutputs(config, num_iters) ==
    IF num_iters = 1 THEN EngineOutputs(config)
    ELSE { [g \in DOMAIN a |-> Add(a[g], b[g])] :
              a \in AccumOutputs(config, num_iters - 1), b \in EngineOutputs(config) }

\* the copy's weights after nn.init.xavier_normal_ on its Linear layers
Reinit(w) == { v \in TensorMaps(ReinitVals \cup UNION { { w[l][i] : i \in DOMAIN w[l] } : l \in DOMAIN w }) :
                  \A l \in DOMAIN w :
                      IF LayerKinds[l] = "Linear"
                      THEN \A i \in DOMAIN w[l] : v[l][i] \in ReinitVals
                      ELSE v[l] = w[l] }

----------------------------------------------------------------------------
(* The score of a layer from the per-group gradients *)

\* the seed of the product in score_mode 3
ScoreSeed == 1000000

SumOver(w, gl, l, i) ==
    [g \in 1 .. Len(gl) |-> w[l][i] * gl[g][l][i]]

RECURSIVE ProdSeq(_)
ProdSeq(s) == IF s = <<>> THEN 1 ELSE Head(s) * ProdSeq(Tail(s))

\* kxt of one weight in score_mode 1 .. 4.  Mode 4 is kept squared and
\* without its factor 1e6: sqrt(sum (w g 1e6)^2) orders as sum (w g)^2 does.
ScoreEntry(score_mode, w, gl, l, i) ==
    LET qhg == SumOver(w, gl, l, i) IN
    CASE score_mode = 1 -> SumSeq(qhg)
      [] score_mode = 2 -> Abs(SumSeq(qhg))
      [] score_mode = 3 -> ScoreSeed * ProdSeq([g \in DOMAIN qhg |-> Abs(qhg[g])])
      [] score_mode = 4 -> SumSeq([g \in DOMAIN qhg |-> qhg[g] * qhg[g]])

\* the score map of the weights w and the gradients gl
Scores(score_mode, w, gl) ==
    [l \in DOMAIN w |-> [i \in DOMAIN w[l] |-> ScoreEntry(score_mode, w, gl, l, i)]]

\* the score loop leaves real tensors only in modes 1 .. 4 with at least
\* one gradient entry: otherwise kxt is not a tensor of the layer's shape
\* and the loop or the ranker raises
Scorable(score_mode, gl) == score_mode \in 1 .. 4 /\ Len(gl) >= 1

----------------------------------------------------------------------------
(* The keep ratio schedule *)

\* 1 - ratio
Complement(ratio) == [ratio EXCEPT !.num = ratio.den - ratio.num]

\* a mutant of KeepRatioAt: the exponent counts the rounds from 0
KeepRatioFromZero(ratio, ep, num_iters) ==
    [num |-> ratio.den - ratio.num, den |-> ratio.den, k |-> ep, n |-> num_iters]

\* keep_ratio = (1.0 - ratio) ** ((epoch + 1) / num_iters)
KeepRatioAt(ratio, ep, num_iters) ==
    [num |-> ratio.den - ratio.num, den |-> ratio.den, k |-> ep + 1, n |-> num_iters]

----------------------------------------------------------------------------
(* Pruner and the strategies *)

NoCall == [fn |-> "none"]

\* a mutant of IsDense: the mode compared, not searched
IsExactlyDense(prune_mode) == prune_mode = S_dense

\* 'dense' in config.prune_mode
IsDense(prune_mode) == Contains(prune_mode, S_dense)

\* a mutant of IsRank: every mode that is not dense is ranked
IsNotDense(prune_mode) == TRUE

\* 'rank' in config.prune_mode
IsRank(prune_mode) == Contains(prune_mode, S_rank)

\* python truth of an int
Truthy(x) == x # 0

Fail(exception) ==
    /\ pc' = "raised"
    /\ raised' = exception

\* a mutant of CallerWeights: the strategy works on the caller's network itself
SharedWeights(model_w, working) == working

\* net = copy.deepcopy(model): the weights of the caller's network once the
\* strategy has assigned `working` to the weights of its copy
CallerWeights(model_w, working) == model_w

\* init_config()
InitConfig ==
    /\ pc = "start"
    /\ LET r == init_config(args) IN
          /\ cfg' = r.config
          /\ printed' = r.printed
          /\ raised' = r.raised
          /\ pc' = IF r.raised = "none" THEN "configured" ELSE "raised"
    /\ UNCHANGED <<rk, coin, ft, eng, sl, args, branch, call, masks, stratMasks, perms, ratioLog, epoch,
                   netW, copyW, snapW, calls, scoreW, maskKeys>>

\* Pruner(mb, trainloader, device, config) up to the call of its strategy
Pruner ==
    /\ pc = "configured"
    /\ IF IsDense(cfg.prune_mode)
       THEN /\ branch' = "dense"
            /\ call' = [fn |-> "single", ratio |-> Ratio(0, 1), reinit |-> FALSE]
            /\ pc' = "strategy"
            /\ UNCHANGED raised
       ELSE IF IsRank(cfg.prune_mode)
       THEN /\ branch' = "rank"
            /\ IF ~Has(cfg, "rank_algo")
               THEN Fail("AttributeError") /\ UNCHANGED call
               ELSE /\ pc' = "strategy"
                    /\ UNCHANGED raised
                    /\ call' =
                         IF Lower(cfg.rank_algo) = S_synflow
                         THEN [fn |-> "synflow", ratio |-> cfg.target_ratio,
                               num_iters |-> cfg.num_iters_prune, eff_rank |-> FALSE,
                               ori_masks |-> None, dynamic |-> Truthy(cfg.dynamic)]
                         ELSE IF Contains(cfg.prune_mode, S_iterative)
                         THEN [fn |-> "iterative", ratio |-> cfg.target_ratio]
                         ELSE [fn |-> "single", ratio |-> cfg.target_ratio, reinit |-> TRUE]
       ELSE /\ Fail("NotImplementedError")
            /\ UNCHANGED <<branch, call>>
    /\ UNCHANGED <<rk, coin, ft, eng, sl, args, cfg, printed, masks, stratMasks, perms, ratioLog, epoch,
                   netW, copyW, snapW, calls, scoreW, maskKeys>>

\* Single_ranking_pruning(net, ratio, samples, device, config, reinit)
Single_ranking_pruning ==
    /\ pc = "strategy"
    /\ call.fn = "single"
    /\ IF call.ratio.num = 0
       THEN \* if ratio == 0: return reset_mask(net), 0
            /\ masks' = reset_mask
            /\ maskKeys' = "old_net"
            /\ pc' = "ranked"
            /\ UNCHANGED <<raised, netW, copyW, calls, ratioLog, scoreW>>
       ELSE IF ~Has(cfg, "score_mode")
       THEN /\ Fail("AttributeError")
            /\ copyW' = netW
            /\ netW' = CallerWeights(netW, netW)
            /\ UNCHANGED <<masks, calls, ratioLog, scoreW, maskKeys>>
       ELSE IF cfg.score_mode = 0
       THEN \* if score_mode == 0: return reset_mask(net), 0, net being the copy by now
            /\ masks' = reset_mask
            /\ maskKeys' = "net"
            /\ copyW' = netW
            /\ netW' = CallerWeights(netW, netW)
            /\ pc' = "ranked"
            /\ UNCHANGED <<raised, calls, ratioLog, scoreW>>
       ELSE IF ~(EngineFields \subseteq DOMAIN cfg)
       THEN /\ Fail("AttributeError")
            /\ copyW' = netW
            /\ netW' = CallerWeights(netW, netW)
            /\ UNCHANGED <<masks, calls, ratioLog, scoreW, maskKeys>>
       ELSE LET num_iters  == IF Has(cfg, "num_iters") THEN cfg.num_iters ELSE 1
                keep_ratio == Complement(call.ratio)
            IN  \E w \in (IF call.reinit THEN Reinit(netW) ELSE {netW}),
                   gradg_list \in AccumOutputs(cfg, num_iters) :
                    /\ copyW' = w
                    /\ netW' = CallerWeights(netW, w)
                    /\ scoreW' = w
                    /\ calls' = [calls EXCEPT !.sample = @ + num_iters, !.grad = @ + num_iters,
                                              !.rank = @ + (IF Scorable(cfg.score_mode, gradg_list)
                                                            THEN 1 ELSE 0)]
                    /\ IF ~Scorable(cfg.score_mode, gradg_list)
                       THEN Fail("TypeError") /\ UNCHANGED <<masks, ratioLog, maskKeys>>
                       ELSE LET r == ranking_mask(Scores(cfg.score_mode, w, gradg_list),
                                                  keep_ratio, TRUE, FALSE, None)
                            IN  /\ ratioLog' = Append(ratioLog, keep_ratio)
                                /\ IF r.raised # "none"
                                   THEN Fail(r.raised) /\ UNCHANGED <<masks, maskKeys>>
                                   ELSE /\ masks' = r.masks
                                        /\ maskKeys' = "old_net"
                                        /\ pc' = "ranked"
                                        /\ UNCHANGED raised
    /\ UNCHANGED <<rk, coin, ft, eng, sl, args, cfg, printed, branch, call, stratMasks, perms, epoch,
                   snapW>>

\* a mutant of IterativeWeights: the round keeps the weights of the copy as they are
IterativeWeightsKept(snap, keep_masks) == snap

\* the working weights of a round of Iterative_pruning:
\* layer.weight.data = copy_net_weights[...] * keep_masks[...]
IterativeWeights(snap, keep_masks) == Mul(snap, keep_masks)

\* a mutant of ScoreWeights: dynamic scores with the live masked weights
ScoreWeightsLive(dynamic, snap, live) == IF dynamic THEN live ELSE snap

\* _w = copy_net_weights[...] if dynamic else layer.weight.data
ScoreWeights(dynamic, snap, live) == IF dynamic THEN snap ELSE live

\* Iterative_pruning(model, ratio, trainloader, device, config), before its rounds
IterativeStart ==
    /\ pc = "strategy"
    /\ call.fn = "iterative"
    /\ masks' = reset_mask
    /\ maskKeys' = "old_net"
    /\ copyW' = netW
    /\ netW' = CallerWeights(netW, netW)
    /\ snapW' = netW
    /\ epoch' = 0
    /\ pc' = IF cfg.num_iters_prune = 0 THEN "ranked" ELSE "rounds"
    /\ UNCHANGED <<rk, coin, ft, eng, sl, args, cfg, printed, raised, branch, call, stratMasks, perms,
                   ratioLog, calls, scoreW>>

\* one round of Iterative_pruning
IterativeRound ==
    /\ pc = "rounds"
    /\ call.fn = "iterative"
    /\ LET num_iters  == cfg.num_iters_prune
           keep_ratio == KeepRatioAt(call.ratio, epoch, num_iters)
           live       == IterativeWeights(snapW, masks)
       IN  /\ copyW' = live
           /\ netW' = CallerWeights(netW, live)
           /\ IF ~Has(cfg, "score_mode") \/ ~(EngineFields \subseteq DOMAIN cfg)
              THEN /\ Fail("AttributeError")
                   /\ UNCHANGED <<masks, ratioLog, epoch, calls, scoreW, maskKeys>>
              ELSE \E gradg_list \in EngineOutputs(cfg) :
                     LET w        == ScoreWeights(Truthy(cfg.dynamic), snapW, live)
                         oir_mask == IF Truthy(cfg.dynamic) THEN None ELSE masks
                     IN  /\ scoreW' = w
                         /\ IF ~Scorable(cfg.score_mode, gradg_list)
                            THEN /\ Fail("TypeError")
                                 /\ calls' = [calls EXCEPT !.sample = @ + 1, !.grad = @ + 1]
                                 /\ UNCHANGED <<masks, ratioLog, epoch, maskKeys>>
                            ELSE LET r == ranking_mask(Scores(cfg.score_mode, w, gradg_list),
                                                       keep_ratio, TRUE, FALSE, oir_mask)
                                 IN  /\ calls' = [calls EXCEPT !.sample = @ + 1, !.grad = @ + 1,
                                                               !.rank = @ + 1]
                                     /\ ratioLog' = Append(ratioLog, keep_ratio)
                                     /\ IF r.raised # "none"
                                        THEN Fail(r.raised) /\ UNCHANGED <<masks, epoch, maskKeys>>
                                        ELSE /\ masks' = r.masks
                                             /\ maskKeys' = "old_net"
                                             /\ epoch' = epoch + 1
                                             /\ pc' = IF epoch + 1 = num_iters
                                                      THEN "ranked" ELSE "rounds"
                                             /\ UNCHANGED raised
    /\ UNCHANGED <<rk, coin, ft, eng, sl, args, cfg, printed, branch, call, stratMasks, perms, snapW>>

\* a mutant of SynFlowWeights: the previous mask is not applied
SynFlowWeightsUnmasked(snap, keep_masks) == AbsMap(snap)

\* the working weights of a SynFlow round: (copy_net_weights * keep_masks).abs_()
SynFlowWeights(snap, keep_masks) == AbsMap(Mul(snap, keep_masks))

\* SynFlow(model, ratio, dataloader, device, num_iters, eff_rank, ori_masks, dynamic),
\* before its rounds
SynFlowStart ==
    /\ pc = "strategy"
    /\ call.fn = "synflow"
    /\ copyW' = AbsMap(netW)
    /\ netW' = CallerWeights(netW, AbsMap(netW))
    /\ snapW' = netW
    /\ masks' = IF call.ori_masks = None THEN reset_mask ELSE call.ori_masks
    /\ maskKeys' = IF call.ori_masks = None THEN "old_net" ELSE maskKeys
    /\ calls' = [calls EXCEPT !.sample = @ + 1]
    /\ epoch' = 0
    /\ pc' = IF call.num_iters = 0 THEN "ranked" ELSE "rounds"
    /\ UNCHANGED <<rk, coin, ft, eng, sl, args, cfg, printed, raised, branch, call, stratMasks, perms,
                   ratioLog, scoreW>>

\* one round of SynFlow
SynFlowRound ==
    /\ pc = "rounds"
    /\ call.fn = "synflow"
    /\ LET keep_ratio == KeepRatioAt(call.ratio, epoch, call.num_iters)
           live       == SynFlowWeights(snapW, masks)
       IN  /\ copyW' = live
           /\ netW' = CallerWeights(netW, live)
           /\ \E grad \in TensorMaps(GradMagnitudes) :
                LET w     == ScoreWeights(call.dynamic, snapW, live)
                    grads == AbsMap(Mul(w, grad))
                    r     == ranking_mask(grads, keep_ratio, FALSE, call.eff_rank, None)
                IN  /\ scoreW' = w
                    /\ calls' = [calls EXCEPT !.grad = @ + 1, !.rank = @ + 1]
                    /\ ratioLog' = Append(ratioLog, keep_ratio)
                    /\ IF r.raised # "none"
                       THEN Fail(r.raised) /\ UNCHANGED <<masks, epoch, maskKeys>>
                       ELSE /\ masks' = r.masks
                            /\ maskKeys' = "old_net"
                            /\ epoch' = epoch + 1
                            /\ pc' = IF epoch + 1 = call.num_iters THEN "ranked" ELSE "rounds"
                            /\ UNCHANGED raised
    /\ UNCHANGED <<rk, coin, ft, eng, sl, args, cfg, printed, branch, call, stratMasks, perms, snapW>>

\* effective_masks_synflow(model, masks, trainloader, device), up to its call of
\* SynFlow(model, 0, trainloader, device, 1, True, masks)
effective_masks_synflow ==
    /\ pc = "effective"
    /\ branch' = "effective"
    /\ call' = [fn |-> "synflow", ratio |-> Ratio(0, 1), num_iters |-> 1, eff_rank |-> TRUE,
                ori_masks |-> masks, dynamic |-> FALSE]
    /\ pc' = "strategy"
    /\ UNCHANGED <<rk, coin, ft, eng, sl, args, cfg, printed, raised, masks, stratMasks, perms, ratioLog,
                   epoch, netW, copyW, snapW, calls, scoreW, maskKeys>>

\* a mutant of RandPerm: indices drawn with replacement
RandInts(n) == [1 .. n -> 1 .. n]

\* the values torch.randperm(n) may return
RandPerm(n) == { f \in [1 .. n -> 1 .. n] : \A i, j \in 1 .. n : f[i] = f[j] => i = j }

\* g.reshape(-1)[perm].reshape(g.shape)
Reorder(g, perm) == [i \in DOMAIN g |-> g[perm[i]]]

\* the rest of Pruner: the random reordering on the rank branch, and the return
PrunerReturn ==
    /\ pc = "ranked"
    /\ branch \in {"dense", "rank"}
    /\ stratMasks' = masks
    /\ IF branch = "rank" /\ Contains(cfg.prune_mode, S_random)
       THEN \E pm \in { f \in [Layers -> UNION { RandPerm(LayerSizes[l]) : l \in Layers }] :
                          \A l \in Layers : f[l] \in RandPerm(LayerSizes[l]) } :
               /\ perms' = pm
               /\ masks' = [l \in DOMAIN masks |-> Reorder(masks[l], pm[l])]
       ELSE UNCHANGED <<perms, masks>>
    /\ pc' = "done"
    /\ UNCHANGED <<rk, coin, ft, eng, sl, args, cfg, printed, raised, branch, call, ratioLog, epoch,
                   netW, copyW, snapW, calls, scoreW, maskKeys>>

----------------------------------------------------------------------------
(* Initial states *)

\* the arguments of one run; the arguments not listed keep their defaults
Args(dataset, network, target, rank_algo, prune_mode, num_group, num_iters_prune, dynamic) ==
    [dataset |-> dataset, network |-> network, target |-> target, rank_algo |-> rank_algo,
     prune_mode |-> prune_mode, train_mode |-> 1, data_mode |-> NotGiven,
     grad_mode |-> NotGiven, score_mode |-> NotGiven, num_group |-> num_group,
     samples_per |-> NotGiven, num_iters |-> NotGiven, num_iters_prune |-> num_iters_prune,
     dynamic |-> dynamic, flag |-> 1]

IdlePrune ==
    /\ args = None /\ cfg = None /\ printed = <<>> /\ pc = "idle" /\ raised = "none"
    /\ branch = "none" /\ call = NoCall /\ masks = None /\ stratMasks = None /\ perms = None
    /\ ratioLog = <<>> /\ epoch = 0 /\ netW = NetWeights /\ copyW = None /\ snapW = None
    /\ calls = [sample |-> 0, grad |-> 0, rank |-> 0]
    /\ scoreW = None /\ maskKeys = "none"

\* a run from the command line
StartPrune(a) ==
    /\ args = a /\ cfg = None /\ printed = <<>> /\ pc = "start" /\ raised = "none"
    /\ branch = "none" /\ call = NoCall /\ masks = None /\ stratMasks = None /\ perms = None
    /\ ratioLog = <<>> /\ epoch = 0 /\ netW = NetWeights /\ copyW = None /\ snapW = None
    /\ calls = [sample |-> 0, grad |-> 0, rank |-> 0]
    /\ scoreW = None /\ maskKeys = "none"

----------------------------------------------------------------------------
(* The ranker alone: one score map, ranked under any keep ratio *)

ScoreVals == (-MaxScore) .. MaxScore

KeepRatios == { Ratio(k, RatioDen) : k \in 0 .. RatioDen }

MaskMaps == TensorMaps({0, 1})

IdleRank == rk = [scores |-> None, normalize |-> TRUE, oir_mask |-> None, arg |-> None,
                  called |-> FALSE, keep_ratio |-> Ratio(0, 1), out |-> None]

IdleCoin == coin = [mask1 |-> None, mask2 |-> None, called |-> FALSE, out |-> None]

IdleFetch == ft = [pc |-> "idle"]

IdleEngine == eng = [pc |-> "idle"]

IdleScore == sl = [pc |-> "idle"]

InitRank ==
    /\ \E s \in TensorMaps(ScoreVals), nz \in BOOLEAN, om \in {None} \cup MaskMaps :
          rk = [scores |-> s, normalize |-> nz, oir_mask |-> om, arg |-> None,
                called |-> FALSE, keep_ratio |-> Ratio(0, 1), out |-> None]
    /\ IdleCoin
    /\ IdleFetch
    /\ IdleEngine
    /\ IdleScore
    /\ IdlePrune

\* keep_masks, threshold = ranking_mask(scores, keep_ratio, normalize, False, 2, oir_mask)
RankCall ==
    /\ rk.scores # None
    /\ \E kr \in KeepRatios :
          LET r == ranking_mask(rk.scores, kr, rk.normalize, FALSE, rk.oir_mask)
          IN  rk' = [rk EXCEPT !.called = TRUE, !.keep_ratio = kr, !.out = r,
                               !.arg = rk.scores, !.scores = r.scores]
    /\ UNCHANGED <<coin, ft, eng, sl>>
    /\ UNCHANGED pruneVars

NextRank == RankCall

SpecRank == InitRank /\ [][NextRank]_vars

\* the number of ones of a mask map, over all layers
TotalOnes(mm) == CountOnes(Flatten(mm))

\* the ranker returned masks (its top-k was not empty)
Ranked == rk.called /\ rk.out.raised = "none"

\* floor(poolSize * keepRatio) of the last call, for a ratio k/RatioDen
RequestedKeep == (Len(Flatten(rk.arg)) * rk.keep_ratio.num) \div rk.keep_ratio.den

\* the scores of the last call that equal its threshold
AtThreshold == { i \in DOMAIN Flatten(rk.out.scores) :
                    Flatten(rk.out.scores)[i] = rk.out.threshold }

\* C1: whenever floor(poolSize * keepRatio) >= 1, ranking_mask (not in
\* effective-rank mode) returns one mask per scored layer, of that layer's
\* score shape, with entries 0 or 1, and at least floor(poolSize * keepRatio)
\* ones over all layers: exactly that many when only one of the ranked scores
\* equals the threshold.  With floor(poolSize * keepRatio) = 0 it raises.
C1_RankerMasks ==
    rk.called =>
        /\ (RequestedKeep >= 1) <=> (rk.out.raised = "none")
        /\ Ranked =>
              /\ DOMAIN rk.out.masks = DOMAIN rk.arg
              /\ \A l \in DOMAIN rk.arg :
                    /\ DOMAIN rk.out.masks[l] = DOMAIN rk.arg[l]
                    /\ \A i \in DOMAIN rk.arg[l] : rk.out.masks[l][i] \in {0, 1}
              /\ TotalOnes(rk.out.masks) >= RequestedKeep
              /\ Cardinality(AtThreshold) = 1 => TotalOnes(rk.out.masks) = RequestedKeep

\* a ranking without ties at the threshold that keeps part of the pool
C1_Witness ==
    /\ Ranked
    /\ rk.oir_mask = None
    /\ Cardinality(AtThreshold) = 1
    /\ TotalOnes(rk.out.masks) = 2
    /\ RequestedKeep = 2

\* a ranking with ties at the threshold that keeps more than was asked for
C1_TiesWitness ==
    /\ Ranked
    /\ rk.oir_mask = None
    /\ TotalOnes(rk.out.masks) > RequestedKeep

\* C3: for the score map of the last call and every keep ratio b at least
\* the ratio a of that call, ranking_mask under b returns masks with at least
\* as many ones as it returned under a.
C3_KeepCountMonotone ==
    Ranked =>
        \A b \in KeepRatios :
            RatioLeq(rk.keep_ratio, b) =>
                LET rb == ranking_mask(rk.arg, b, rk.normalize, FALSE, rk.oir_mask)
                IN  /\ rb.raised = "none"
                    /\ TotalOnes(rb.masks) >= TotalOnes(rk.out.masks)

\* a ranking under a ratio below 1 for which a larger ratio keeps strictly more
C3_Witness ==
    /\ Ranked
    /\ \E b \in KeepRatios :
          /\ RatioLeq(rk.keep_ratio, b)
          /\ TotalOnes(ranking_mask(rk.arg, b, rk.normalize, FALSE, rk.oir_mask).masks)
                > TotalOnes(rk.out.masks)

----------------------------------------------------------------------------
(* fetch_data alone: one call on a finite data source *)

\* labels are 0 .. MaxClasses - 1 at most
MaxClasses == 2

\* samples_per_class ranges over 1 .. MaxPer
MaxPer == 2

\* a data source holds at most MaxExamples examples
MaxExamples == 6

\* the loader's batch size ranges over 1 .. MaxBatch
MaxBatch == 2

Min(a, b) == IF a <= b THEN a ELSE b

\* the examples of a source with the labels ls: x is the example's position
\* in the source, y its label
Examples(ls) == [p \in 1 .. Len(ls) |-> [x |-> p, y |-> ls[p]]]

\* the batches a loader of batch size b yields, the last one possibly short
Batches(ls, b) ==
    [n \in 1 .. ((Len(ls) + b - 1) \div b) |->
        SubSeq(Examples(ls), (n - 1) * b + 1, Min(n * b, Len(ls)))]

\* a mutant of BucketFull: a bucket counts as full one example early
BucketNearlyFull(bucket, samples_per_class) == Len(bucket) + 1 >= samples_per_class

\* len(datas[category]) == samples_per_class
BucketFull(bucket, samples_per_class) == Len(bucket) = samples_per_class

\* the for loop over one batch: an example of a full bucket marks its category
\* and is skipped, any other example is appended to its bucket
RECURSIVE ScanBatch(_, _, _, _, _)
ScanBatch(batch, datas, labels, mark, samples_per_class) ==
    IF batch = <<>> THEN [datas |-> datas, labels |-> labels, mark |-> mark]
    ELSE LET e        == Head(batch)
             category == e.y
         IN  IF BucketFull(datas[category], samples_per_class)
             THEN ScanBatch(Tail(batch), datas, labels, mark \cup {category},
                            samples_per_class)
             ELSE ScanBatch(Tail(batch), [datas EXCEPT ![category] = Append(@, e.x)],
                            [labels EXCEPT ![category] = Append(@, e.y)], mark,
                            samples_per_class)

\* torch.cat over the buckets from category c on, in label order
RECURSIVE CatFrom(_, _, _)
CatFrom(datas, c, num_classes) ==
    IF c >= num_classes THEN <<>> ELSE datas[c] \o CatFrom(datas, c + 1, num_classes)

\* a mutant of GroupIndex: the positions left in bucket order
GroupIndexIdentity(i, j, num_classes, samples_per_class) == i * num_classes + j

\* the entry of _index at position i * num_classes + j: i + j * samples_per_class
GroupIndex(i, j, num_classes, samples_per_class) == i + j * samples_per_class

\* X[_index]: _index lists i + j * samples_per_class for i in range(samples_per_class),
\* j in range(num_classes); positions are counted from 0 in the code, from 1 here
Regroup(X, num_classes, samples_per_class) ==
    [p \in 1 .. (num_classes * samples_per_class) |->
        LET i == (p - 1) \div num_classes
            j == (p - 1) % num_classes
        IN  X[GroupIndex(i, j, num_classes, samples_per_class) + 1]]

\* a mutant of Exhausted: next() waits for data that never comes
ExhaustedWaits(f) == f

\* next(dataloader_iter) on the exhausted iterator raises StopIteration, and
\* fetch_data has no handler for it
Exhausted(f) == [f EXCEPT !.pc = "raised", !.raised = "StopIteration"]

\* while True: inputs, targets = next(dataloader_iter); the for loop over the
\* batch; if len(mark) == num_classes: break.  In any other mode the first batch
\* is sliced.
FetchBatch ==
    /\ ft.pc = "loop"
    /\ IF ft.next > Len(ft.source)
       THEN ft' = Exhausted(ft)
       ELSE IF ft.mode # 0
       THEN LET batch == ft.source[ft.next]
                n     == Min(Len(batch), ft.samples_per_class * ft.num_classes)
            IN  ft' = [ft EXCEPT !.pc = "returned", !.next = @ + 1,
                                 !.X = [p \in 1 .. n |-> batch[p].x],
                                 !.y = [p \in 1 .. n |-> batch[p].y]]
       ELSE LET r == ScanBatch(ft.source[ft.next], ft.datas, ft.labels, ft.mark,
                               ft.samples_per_class)
            IN  ft' = [ft EXCEPT !.next = @ + 1, !.datas = r.datas, !.labels = r.labels,
                                 !.mark = r.mark,
                                 !.pc = IF Cardinality(r.mark) = ft.num_classes
                                        THEN "cat" ELSE "loop"]
    /\ UNCHANGED <<rk, coin, eng, sl>>
    /\ UNCHANGED pruneVars

\* X, y = torch.cat(...), torch.cat(...); the regrouping if dm == 1; return X, y
FetchReturn ==
    /\ ft.pc = "cat"
    /\ LET X == CatFrom(ft.datas, 0, ft.num_classes)
           y == CatFrom(ft.labels, 0, ft.num_classes)
       IN  ft' = [ft EXCEPT !.pc = "returned", !.catX = X, !.catY = y,
                            !.X = IF ft.dm = 1
                                  THEN Regroup(X, ft.num_classes, ft.samples_per_class)
                                  ELSE X,
                            !.y = IF ft.dm = 1
                                  THEN Regroup(y, ft.num_classes, ft.samples_per_class)
                                  ELSE y]
    /\ UNCHANGED <<rk, coin, eng, sl>>
    /\ UNCHANGED pruneVars

\* the label sequences of the data sources
RECURSIVE LabelSeqs(_, _)
LabelSeqs(num_classes, n) ==
    IF n = 0 THEN { <<>> }
    ELSE LET shorter == LabelSeqs(num_classes, n - 1)
         IN  shorter \cup { Append(ls, c) : ls \in { q \in shorter : Len(q) = n - 1 },
                                            c \in 0 .. (num_classes - 1) }

InitFetch ==
    /\ IdleRank
    /\ IdleCoin
    /\ IdleEngine
    /\ IdleScore
    /\ IdlePrune
    /\ \E nc \in 1 .. MaxClasses, k \in 1 .. MaxPer, b \in 1 .. MaxBatch, dm \in {0, 1},
          mode \in {0, 1} :
          \E ls \in LabelSeqs(nc, MaxExamples) :
             ft = [pc |-> "loop", source |-> Batches(ls, b), targets |-> ls,
                   num_classes |-> nc, samples_per_class |-> k, dm |-> dm, mode |-> mode,
                   next |-> 1, datas |-> [c \in 0 .. (nc - 1) |-> <<>>],
                   labels |-> [c \in 0 .. (nc - 1) |-> <<>>], mark |-> {},
                   catX |-> None, catY |-> None, X |-> None, y |-> None,
                   raised |-> "none"]

NextFetch ==
    \/ FetchBatch
    \/ FetchReturn

SpecFetch == InitFetch /\ [][NextFetch]_vars

\* fetch_data runs on one thread: a step that can be taken is taken
SpecFetchLive == SpecFetch /\ WF_vars(FetchBatch) /\ WF_vars(FetchReturn)

----------------------------------------------------------------------------
(* hessian_gradient_product alone: successive calls on one network *)

\* a call gets at most MaxSamples sampled examples
MaxSamples == 4

\* num_group ranges over 0 .. MaxEngineGroups
MaxEngineGroups == 3

\* the network is passed to at most MaxCalls calls
MaxCalls == 2

\* the grad_mode values of the calls: 0 .. 5 have a branch, 6 has none
GradModes == 0 .. 6

\* the number of prunable layers: one hook per recorder, one weight, per layer
NumLayers == Len(LayerSizes)

\* a mutant of EqualParts: the group size rounded up
EqualPartsCeil(n, num_group) == (n + num_group - 1) \div num_group

\* equal_parts = inputs.shape[0] // num_group
EqualParts(n, num_group) == n \div num_group

\* a mutant of ClearList: the list left as it is
ClearListSkipped(outputs) == outputs

\* output_recorder.clear_list()
ClearList(outputs) == <<>>

\* the grad_modes whose group loop clears the recorder and reads its outputs
RecorderModes == {4, 5}

\* the grad_modes whose group loop only collects first-order gradients, the
\* entries being made by a second loop
TwoLoopModes == {1, 2}

\* net.forward(...): every hook registered on the network fires once per
\* prunable layer, in layer order, and appends to the list of its recorder
Forward(lists, c, pass) ==
    [r \in DOMAIN lists |->
        lists[r] \o [l \in 1 .. NumLayers |-> [call |-> c, pass |-> pass, layer |-> l]]]

\* the number of tensors of the entry a group makes: autograd.grad(_, weights)
\* has one per weight; pg of grad_mode 4 has one per captured output and is
\* zipped with the gradients
EntryTensors(grad_mode, outputs) ==
    IF grad_mode = 4 THEN Min(NumLayers, Len(outputs)) ELSE NumLayers

\* the layers (from 1) whose weight the inner loop of grad_mode 4 and 5
\* differentiates a captured output by, with allow_unused: for j in
\* range(len(outputs) - 1) in grad_mode 4, range(len(weights) - 1) in grad_mode 5
PreGradLayers(grad_mode, outputs) ==
    1 .. ((IF grad_mode = 4 THEN Len(outputs) ELSE NumLayers) - 1)

\* pre_grad = pre_grad[0]; pre_grad - pre_grad.mean(): autograd.grad with
\* allow_unused gives None for a weight the output does not depend on, and
\* None has no mean
PreGradRaises(grad_mode, outputs, missing) ==
    /\ grad_mode \in RecorderModes
    /\ PreGradLayers(grad_mode, outputs) \cap missing # {}

\* the pair of groups after (a, b) in: for i in range(num_group): for j in range(i + 1, num_group)
NextPair(a, b, num_group) ==
    IF b + 1 < num_group THEN <<a, b + 1>>
    ELSE IF a + 2 < num_group THEN <<a + 1, a + 2>>
    ELSE <<num_group, num_group>>

\* the first lines of a call: a new recorder is hooked to the network, the
\* samples are taken and split
EngineStart ==
    /\ eng.pc \in {"ready", "returned"}
    /\ eng.calls < MaxCalls
    /\ LET lists == Append(eng.lists, <<>>)
       IN  IF eng.num_group = 0
           THEN eng' = [eng EXCEPT !.pc = "raised", !.raised = "ZeroDivisionError",
                                   !.calls = @ + 1, !.lists = lists]
           ELSE eng' = [eng EXCEPT !.calls = @ + 1, !.lists = lists,
                                   !.equal_parts = EqualParts(eng.N, eng.num_group),
                                   !.i = 0, !.slices = <<>>, !.gradg_list = <<>>,
                                   !.grad_ls = <<>>,
                                   !.pc = IF eng.grad_mode \in 0 .. 5 THEN "groups"
                                          ELSE "return"]
    /\ UNCHANGED <<rk, coin, ft, sl>>
    /\ UNCHANGED pruneVars

\* one turn of `for i in range(num_group)` with its forward pass
EngineGroup ==
    /\ eng.pc = "groups"
    /\ LET i       == eng.i
           cur     == Len(eng.lists)
           cleared == IF eng.grad_mode \in RecorderModes
                      THEN [eng.lists EXCEPT ![cur] = ClearList(@)]
                      ELSE eng.lists
           lists   == Forward(cleared, eng.calls, i)
           slice   == [lo |-> i * eng.equal_parts, hi |-> (i + 1) * eng.equal_parts]
           last    == i + 1 = eng.num_group
           first   == NextPair(0, 0, eng.num_group)
       IN  IF PreGradRaises(eng.grad_mode, lists[cur], eng.missing)
           THEN eng' = [eng EXCEPT !.lists = lists, !.slices = Append(@, slice),
                                   !.pc = "raised", !.raised = "AttributeError"]
           ELSE
           eng' = [eng EXCEPT
                     !.lists = lists,
                     !.slices = Append(@, slice),
                     !.i = i + 1,
                     !.grad_ls = IF eng.grad_mode \in TwoLoopModes THEN Append(@, i) ELSE @,
                     !.gradg_list =
                        IF eng.grad_mode \in TwoLoopModes THEN @
                        ELSE Append(@, [of |-> <<i>>,
                                        tensors |-> EntryTensors(eng.grad_mode, lists[cur])]),
                     !.a = IF eng.grad_mode = 2 THEN first[1] ELSE 0,
                     !.b = IF eng.grad_mode = 2 THEN first[2] ELSE 0,
                     !.pc = IF ~last THEN "groups"
                            ELSE IF eng.grad_mode = 1 THEN "entries"
                            ELSE IF eng.grad_mode = 2 /\ first[1] < eng.num_group THEN "entries"
                            ELSE "return"]
    /\ UNCHANGED <<rk, coin, ft, sl>>
    /\ UNCHANGED pruneVars

\* one turn of the second loop of grad_mode 1 (one entry per group) and 2 (one
\* entry per pair of groups)
EngineEntry ==
    /\ eng.pc = "entries"
    /\ IF eng.grad_mode = 1
       THEN eng' = [eng EXCEPT
                      !.gradg_list = Append(@, [of |-> <<eng.a>>, tensors |-> NumLayers]),
                      !.a = @ + 1,
                      !.pc = IF eng.a + 1 = eng.num_group THEN "return" ELSE "entries"]
       ELSE LET nxt == NextPair(eng.a, eng.b, eng.num_group)
            IN  eng' = [eng EXCEPT
                          !.gradg_list = Append(@, [of |-> <<eng.a, eng.b>>,
                                                    tensors |-> NumLayers]),
                          !.a = nxt[1], !.b = nxt[2],
                          !.pc = IF nxt[1] < eng.num_group THEN "entries" ELSE "return"]
    /\ UNCHANGED <<rk, coin, ft, sl>>
    /\ UNCHANGED pruneVars

\* return gradg_list
EngineReturn ==
    /\ eng.pc = "return"
    /\ eng' = [eng EXCEPT !.pc = "returned", !.out = eng.gradg_list]
    /\ UNCHANGED <<rk, coin, ft, sl>>
    /\ UNCHANGED pruneVars

InitEngine ==
    /\ IdleRank
    /\ IdleScore
    /\ IdleCoin
    /\ IdleFetch
    /\ IdlePrune
    /\ \E n \in 0 .. MaxSamples, g \in 0 .. MaxEngineGroups, gm \in GradModes,
          missing \in SUBSET (1 .. (NumLayers - 1)) :
          eng = [pc |-> "ready", raised |-> "none", N |-> n, num_group |-> g,
                 grad_mode |-> gm, missing |-> missing, calls |-> 0, lists |-> <<>>, equal_parts |-> 0,
                 i |-> 0, a |-> 0, b |-> 0, slices |-> <<>>, grad_ls |-> <<>>,
                 gradg_list |-> <<>>, out |-> None]

NextEngine ==
    \/ EngineStart
    \/ EngineGroup
    \/ EngineEntry
    \/ EngineReturn

SpecEngine == InitEngine /\ [][NextEngine]_vars

----------------------------------------------------------------------------
(* The score loops of Single_ranking_pruning and Iterative_pruning, one turn *)
(* (one prunable layer) of each on the same weight and the same gradg_list   *)

\* the score_modes the two loops are compared on
ScoreLoopModes == 1 .. 5

\* one value of a score tensor: m * (1e6)^e, under a square root when root.
\* The factors 1e6 of score_mode 3 and 4 are counted, not multiplied out.
Num(m, e, root) == [m |-> m, e |-> e, root |-> root]

\* the loop turn ended with the tensor kxt
KxtTensor(kxt) == [raised |-> "none", kxt |-> kxt]

\* the loop turn ended with an exception
KxtRaised(exc) == [raised |-> exc, kxt |-> <<>>]

\* _qhg = weight * gradg_list[i][layer_cnt] of group i (from 1), at position k
Qhg(weight, gradg_list, i, layer_cnt, k) == weight[k] * gradg_list[i][layer_cnt + 1][k]

\* weight * gradg_list[layer_cnt]: the list has one entry per group, and an
\* entry is a tuple or list of tensors, which a tensor cannot be multiplied by
TimesEntry(gradg_list, layer_cnt) ==
    IF layer_cnt >= Len(gradg_list) THEN "IndexError" ELSE "TypeError"

\* the turn of Single_ranking_pruning's score loop for layer layer_cnt (from 0)
SingleKxt(score_mode, weight, gradg_list, layer_cnt) ==
    LET G    == 1 .. Len(gradg_list)
        q(i, k) == Qhg(weight, gradg_list, i, layer_cnt, k)
    IN  CASE score_mode = 1 ->
               KxtTensor([k \in DOMAIN weight |-> Num(SumSeq([i \in G |-> q(i, k)]), 0, FALSE)])
          [] score_mode = 2 ->
               KxtTensor([k \in DOMAIN weight |-> Num(Abs(SumSeq([i \in G |-> q(i, k)])), 0, FALSE)])
          [] score_mode = 3 ->
               KxtTensor([k \in DOMAIN weight |->
                          Num(ProdSeq([i \in G |-> Abs(q(i, k))]), 1, FALSE)])
          [] score_mode = 4 ->
               KxtTensor([k \in DOMAIN weight |->
                          Num(SumSeq([i \in G |-> q(i, k) * q(i, k)]), 2, TRUE)])
          [] score_mode \in {5, 7} ->
               KxtRaised(TimesEntry(gradg_list, layer_cnt))

\* the turn of Iterative_pruning's score loop for layer layer_cnt (from 0)
IterativeKxt(score_mode, w, gradg_list, layer_cnt) ==
    LET G    == 1 .. Len(gradg_list)
        q(i, k) == Qhg(w, gradg_list, i, layer_cnt, k)
    IN  CASE score_mode = 1 ->
               KxtTensor([k \in DOMAIN w |-> Num(SumSeq([i \in G |-> q(i, k)]), 0, FALSE)])
          [] score_mode = 2 ->
               KxtTensor([k \in DOMAIN w |-> Num(Abs(SumSeq([i \in G |-> q(i, k)])), 0, FALSE)])
          [] score_mode = 3 ->
               KxtTensor([k \in DOMAIN w |->
                          Num(ProdSeq([i \in G |-> Abs(q(i, k))]), 1, FALSE)])
          [] score_mode = 4 ->
               KxtTensor([k \in DOMAIN w |->
                          Num(SumSeq([i \in G |-> q(i, k) * q(i, k)]), 2, TRUE)])
          [] score_mode = 5 ->
               KxtRaised(TimesEntry(gradg_list, layer_cnt))

\* the weights a layer may have when it is scored: the network's, some of
\* them zeroed by a mask
LayerWeights(l) ==
    { [k \in Positions(l) |-> NetWeights[l][k] * m[k]] : m \in [Positions(l) -> {0, 1}] }

\* the gradient lists of `groups` entries, one tensor per prunable layer in
\* each; the tensors of the layers this turn does not read are zero
GradLists(groups, l) ==
    { [g \in 1 .. groups |->
          [x \in Layers |-> IF x = l THEN t[g] ELSE [k \in Positions(x) |-> 0]]] :
        t \in [1 .. groups -> [Positions(l) -> GradVals]] }

\* Single_ranking_pruning's loop reaches the layer
ScoreSingle ==
    /\ sl.pc = "ready"
    /\ \E weight \in LayerWeights(sl.layer_cnt + 1),
          gradg_list \in GradLists(sl.groups, sl.layer_cnt + 1) :
          sl' = [sl EXCEPT !.pc = "single", !.weight = weight, !.gradg_list = gradg_list,
                           !.single = SingleKxt(sl.score_mode, weight, gradg_list,
                                                sl.layer_cnt)]
    /\ UNCHANGED <<rk, coin, ft, eng>>
    /\ UNCHANGED pruneVars

\* Iterative_pruning's loop reaches the layer, with the same weight and list
ScoreIterative ==
    /\ sl.pc = "single"
    /\ sl' = [sl EXCEPT !.pc = "scored",
                        !.iterative = IterativeKxt(sl.score_mode, sl.weight, sl.gradg_list,
                                                   sl.layer_cnt)]
    /\ UNCHANGED <<rk, coin, ft, eng>>
    /\ UNCHANGED pruneVars

InitScore ==
    /\ IdleRank
    /\ IdleCoin
    /\ IdleFetch
    /\ IdleEngine
    /\ IdlePrune
    /\ \E score_mode \in ScoreLoopModes, layer_cnt \in 0 .. (NumLayers - 1),
          groups \in 1 .. MaxScoreGroups :
          sl = [pc |-> "ready", score_mode |-> score_mode, layer_cnt |-> layer_cnt,
                groups |-> groups, weight |-> <<>>, gradg_list |-> <<>>,
                single |-> KxtRaised("none"), iterative |-> KxtRaised("none")]

NextScore ==
    \/ ScoreSingle
    \/ ScoreIterative

SpecScore == InitScore /\ [][NextScore]_vars

----------------------------------------------------------------------------
(* Configuration alone *)

MaxGroups == 5

Datasets == {S_mnist, S_cifar10, S_cifar100, S_tiny_imagenet}

Networks == {S_vgg, S_resnet, S_lenet}

AllAlgos == RecognizedAlgos \cup {S_SynFlow, S_666, S_magnitude}

InitConfigOnly ==
    /\ IdleRank
    /\ IdleCoin
    /\ IdleFetch
    /\ IdleEngine
    /\ IdleScore
    /\ \E d \in Datasets, nw \in Networks, al \in AllAlgos, pm \in {S_rank, S_dense},
          ng \in {NotGiven} \cup (0 .. MaxGroups) :
          StartPrune(Args(d, nw, 1, al, pm, ng, 1, 1))

NextConfig == InitConfig

SpecConfig == InitConfigOnly /\ [][NextConfig]_vars

----------------------------------------------------------------------------
(* A whole run: init_config, then Pruner *)

RunAlgos == {S_grasp, S_snip, S_gcs, S_synflow, S_SynFlow, S_666, S_magnitude}

RunModes == {S_dense, S_rank, S_rank_random, S_rank_iterative, S_rank_iterative_random,
             S_dense_random, S_coin}

Init ==
    /\ IdleRank
    /\ IdleCoin
    /\ IdleFetch
    /\ IdleEngine
    /\ IdleScore
    /\ \E t \in 0 .. RatioDen, al \in RunAlgos, pm \in RunModes, n \in 1 .. MaxRounds,
          dyn \in {0, 1} :
          StartPrune(Args(S_cifar10, S_vgg, t, al, pm, NotGiven, n, dyn))

Next ==
    \/ InitConfig
    \/ Pruner
    \/ Single_ranking_pruning
    \/ IterativeStart
    \/ IterativeRound
    \/ SynFlowStart
    \/ SynFlowRound
    \/ PrunerReturn

Spec == Init /\ [][Next]_vars

----------------------------------------------------------------------------
(* The strategies under Pruner, with and without a score_mode on the command line *)

StratAlgos == {S_grasp, S_snip, S_synflow}

StratModes == {S_dense, S_rank, S_rank_iterative}

InitStrat ==
    /\ IdleRank
    /\ IdleCoin
    /\ IdleFetch
    /\ IdleEngine
    /\ IdleScore
    /\ \E t \in 0 .. RatioDen, al \in StratAlgos, pm \in StratModes, n \in 1 .. MaxRounds,
          dyn \in {0, 1}, sm \in {NotGiven, 0} :
          StartPrune([Args(S_cifar10, S_vgg, t, al, pm, NotGiven, n, dyn)
                         EXCEPT !.score_mode = sm])

SpecStrat == InitStrat /\ [][Next]_vars

----------------------------------------------------------------------------
(* The effective-sparsity pass alone *)

\* the weights of the networks the pass is run on
EffWeights == {NetWeights, <<<<0, 1>>, <<-1, 0>>>>}

InitEff ==
    /\ IdleRank
    /\ IdleCoin
    /\ IdleFetch
    /\ IdleEngine
    /\ IdleScore
    /\ \E m \in MaskMaps, w \in EffWeights :
          /\ args = None /\ cfg = None /\ printed = <<>> /\ pc = "effective" /\ raised = "none"
          /\ branch = "none" /\ call = NoCall /\ masks = m /\ stratMasks = None /\ perms = None
          /\ ratioLog = <<>> /\ epoch = 0 /\ netW = w /\ copyW = None /\ snapW = None
          /\ calls = [sample |-> 0, grad |-> 0, rank |-> 0]
          /\ scoreW = None /\ maskKeys = "old_net"

NextEff ==
    \/ effective_masks_synflow
    \/ SynFlowStart
    \/ SynFlowRound

SpecEff == InitEff /\ [][NextEff]_vars

----------------------------------------------------------------------------
(* coincide_mask alone *)

\* a mutant of M2Num: every position of mask2 counted
M2Numel(mask2) == Len(Flatten(mask2))

\* _m2_num: the number of ones of mask2
M2Num(mask2) == CountOnes(Flatten(mask2))

\* _coin_num: the positions where mask1 * mask2 == 1, over the layers of mask1
CoinNum(mask1, mask2) ==
    SumSeq([l \in DOMAIN mask1 |->
              Cardinality({ i \in DOMAIN mask1[l] : mask1[l][i] * mask2[l][i] = 1 })])

\* coincide_mask(mask1, mask2): _coin_num / _m2_num as a fraction; 0 / 0 is nan
coincide_mask(mask1, mask2) ==
    [num |-> CoinNum(mask1, mask2), den |-> M2Num(mask2), nan |-> M2Num(mask2) = 0]

InitCoin ==
    /\ IdleRank
    /\ IdleFetch
    /\ IdleEngine
    /\ IdleScore
    /\ IdlePrune
    /\ \E m1, m2 \in MaskMaps :
          coin = [mask1 |-> m1, mask2 |-> m2, called |-> FALSE, out |-> None]

CoinCall ==
    /\ ~coin.called
    /\ coin.mask1 # None
    /\ coin' = [coin EXCEPT !.called = TRUE, !.out = coincide_mask(coin.mask1, coin.mask2)]
    /\ UNCHANGED <<rk, ft, eng, sl>>
    /\ UNCHANGED pruneVars

NextCoin == CoinCall

SpecCoin == InitCoin /\ [][NextCoin]_vars

----------------------------------------------------------------------------
(* Claims *)

\* every prunable layer has a mask of its size, all ones
AllOnes(mm) ==
    /\ DOMAIN mm = Layers
    /\ \A l \in Layers : Len(mm[l]) = LayerSizes[l] /\ \A i \in 1 .. Len(mm[l]) : mm[l][i] = 1

\* no sampling, gradient or ranking step has run
NoScoringWork == calls.sample = 0 /\ calls.grad = 0 /\ calls.rank = 0 /\ ratioLog = <<>>

\* C2: when prune_mode contains 'dense', whatever the other arguments, Pruner
\* takes the dense branch, never raises and returns the all-ones mask of
\* every prunable layer; Single_ranking_pruning called with ratio 0 returns
\* the same mask; in both cases nothing was sampled, differentiated or ranked.
C2_DenseIsAllOnes ==
    /\ (pc \in {"strategy", "ranked", "done", "raised"} /\ Contains(cfg.prune_mode, S_dense)) =>
          /\ branch = "dense"
          /\ pc # "raised"
          /\ NoScoringWork
          /\ pc \in {"ranked", "done"} => AllOnes(masks)
    /\ (pc \in {"ranked", "done"} /\ call.fn = "single" /\ call.ratio.num = 0) =>
          AllOnes(masks) /\ NoScoringWork

\* Pruner returned from the dense branch although ranking arguments were given
C2_Witness ==
    /\ pc = "done"
    /\ branch = "dense"
    /\ args.prune_mode = S_dense_random
    /\ args.rank_algo = S_grasp
    /\ args.target = 2
    /\ AllOnes(masks)

\* Single_ranking_pruning returned from a call of the rank branch with ratio 0
C2_ZeroRatioWitness ==
    /\ pc = "ranked"
    /\ branch = "rank"
    /\ call.fn = "single"
    /\ call.ratio.num = 0
    /\ AllOnes(masks)

\* the rounds asked for and 1 - r, from the arguments
RoundsAsked == args.num_iters_prune

KeepBase == Ratio(RatioDen - args.target, RatioDen)

\* C4: in Iterative_pruning and SynFlow with target ratio r and n rounds, the
\* keep ratio passed to the ranker in round k is (1-r)^(k/n); the ratios do
\* not increase from round to round, and the ratio of round n is exactly 1-r.
C4_Schedule ==
    (pc \in {"rounds", "ranked", "done", "raised"} /\ call.fn \in {"iterative", "synflow"}) =>
        /\ Len(ratioLog) <= RoundsAsked
        /\ \A k \in 1 .. Len(ratioLog) :
              RatioEq(ratioLog[k], [num |-> KeepBase.num, den |-> KeepBase.den,
                                    k |-> k, n |-> RoundsAsked])
        /\ \A k \in 1 .. (Len(ratioLog) - 1) : RatioLeq(ratioLog[k + 1], ratioLog[k])
        /\ Len(ratioLog) = RoundsAsked =>
              LET last == ratioLog[RoundsAsked]
              IN  Pow(last.num, last.k) * Pow(KeepBase.den, last.n)
                     = Pow(KeepBase.num, last.n) * Pow(last.den, last.k)
        /\ pc \in {"ranked", "done"} => Len(ratioLog) = RoundsAsked

\* Iterative_pruning finished two rounds with a target ratio strictly between 0 and 1
C4_Witness ==
    /\ pc = "ranked"
    /\ call.fn = "iterative"
    /\ args.target = 1
    /\ Len(ratioLog) = 2
    /\ ~RatioEq(ratioLog[1], ratioLog[2])

\* SynFlow finished two rounds with a target ratio strictly between 0 and 1
C4_SynFlowWitness ==
    /\ pc = "ranked"
    /\ call.fn = "synflow"
    /\ args.target = 1
    /\ Len(ratioLog) = 2

\* C5: for every dataset and every explicitly requested num_group, the
\* configuration has num_group equal to the requested value when it divides
\* the number of class labels evenly, and equal to 2, with the warning
\* printed, when it does not.
C5_GroupCount ==
    (args # None /\ args.num_group # NotGiven /\ args.num_group > 0) =>
        /\ pc # "raised"
        /\ pc = "configured" =>
              IF cfg.classe % args.num_group = 0
              THEN cfg.num_group = args.num_group
              ELSE /\ cfg.num_group = 2
                   /\ \E i \in DOMAIN printed :
                         printed[i] = "num_group must be divisible by the number of tags"

\* C6: the mask effective_masks_synflow returns is an elementwise subset of
\* the mask it was given: no position that is 0 in the input is 1 in the
\* output, so the keep count does not increase; the pass does not raise.
C6_EffectiveSubset ==
    (branch = "effective") =>
        /\ pc # "raised"
        /\ pc = "ranked" =>
              /\ \A l \in Layers : \A i \in Positions(l) :
                    call.ori_masks[l][i] = 0 => masks[l][i] = 0
              /\ TotalOnes(masks) <= TotalOnes(call.ori_masks)

\* the pass removed a kept position (a zero weight or a zero gradient) of a
\* mask that had pruned positions
C6_Witness ==
    /\ branch = "effective"
    /\ pc = "ranked"
    /\ TotalOnes(call.ori_masks) = 3
    /\ TotalOnes(masks) = 2

\* rank_algo is none of the names init_config recognises
Unrecognized == Lower(args.rank_algo) \notin RecognizedAlgos

\* the run fell back to dense: prune_mode is 'dense', the warning was
\* printed, nothing raised, and the masks returned are all ones
FellBackToDense ==
    /\ pc # "raised"
    /\ pc # "start" =>
          /\ cfg.prune_mode = S_dense
          /\ \E i \in DOMAIN printed :
                printed[i] = "choose one of: GCS, GCS-Group, GraSP, SNIP, SynFlow"
    /\ pc \in {"strategy", "ranked", "done"} => branch = "dense"
    /\ pc = "done" => AllOnes(masks)

\* C7 as claimed: for every rank_algo that is not a recognised name, whatever
\* prune_mode was requested, configuration sets prune_mode to dense with a
\* printed warning and Pruner returns the all-ones mask without raising.
C7_AnyUnrecognizedAlgo == Unrecognized => FellBackToDense

\* C7 as amended: the same, for every unrecognised rank_algo other than
\* '666', the value init_config reads as "no algorithm given".
C7_UnrecognizedAlgo == (Unrecognized /\ args.rank_algo # S_666) => FellBackToDense

\* a run with an unrecognised algorithm and a ranking prune_mode returned
C7_Witness ==
    /\ pc = "done"
    /\ args.rank_algo = S_magnitude
    /\ args.prune_mode = S_rank_iterative
    /\ AllOnes(masks)

\* prune_mode names no strategy
NoStrategy == ~Contains(cfg.prune_mode, S_dense) /\ ~Contains(cfg.prune_mode, S_rank)

\* C8 as claimed: for every prune_mode that contains neither 'dense' nor
\* 'rank', Pruner returns the all-ones mask and does not raise.
C8_UnknownModeIsDense ==
    (pc \notin {"start", "configured"} /\ NoStrategy) => (pc = "done" /\ AllOnes(masks))

\* C8 as amended: for every prune_mode that contains neither 'dense' nor
\* 'rank', Pruner raises NotImplementedError: it returns no mask and runs no
\* strategy; and Pruner raises NotImplementedError for no other prune_mode.
C8_UnknownModeRaises ==
    /\ (pc \notin {"start", "configured"} /\ NoStrategy) =>
          /\ pc = "raised"
          /\ raised = "NotImplementedError"
          /\ masks = None
          /\ call = NoCall
          /\ NoScoringWork
    /\ raised = "NotImplementedError" => NoStrategy

\* Pruner raised on a prune_mode that names no strategy
C8_Witness ==
    /\ pc = "raised"
    /\ raised = "NotImplementedError"
    /\ args.prune_mode = S_coin
    /\ args.rank_algo = S_grasp

\* the reordering applies
Reordered == branch = "rank" /\ Contains(cfg.prune_mode, S_random)

\* f is a permutation of 1 .. n
IsPermutation(f, n) ==
    /\ DOMAIN f = 1 .. n
    /\ \A i \in 1 .. n : f[i] \in 1 .. n
    /\ \A i, j \in 1 .. n : f[i] = f[j] => i = j

\* C9: when prune_mode contains 'random', the mask Pruner returns is, for
\* every layer, a permutation of the flattened mask the ranking strategy
\* returned: same shape, the same number of ones; the masks of a run that is
\* not on the ranking branch, or without 'random', are returned as they are.
C9_RandomReorder ==
    pc = "done" =>
        IF Reordered
        THEN \A l \in Layers :
                /\ Len(masks[l]) = Len(stratMasks[l])
                /\ CountOnes(masks[l]) = CountOnes(stratMasks[l])
                /\ IsPermutation(perms[l], Len(stratMasks[l]))
                /\ \A i \in 1 .. Len(masks[l]) : masks[l][i] = stratMasks[l][perms[l][i]]
        ELSE masks = stratMasks /\ perms = None

\* a reordering that moved the ones of a ranked mask
C9_Witness ==
    /\ pc = "done"
    /\ Reordered
    /\ masks # stratMasks
    /\ call.fn = "iterative"

\* the fraction is a number in [0, 1]
InUnitInterval(q) == ~q.nan /\ q.den > 0 /\ 0 <= q.num /\ q.num <= q.den

\* the positions that are 1 in both masks
BothOnes ==
    Cardinality({ p \in DOMAIN Flatten(coin.mask1) :
                    Flatten(coin.mask1)[p] = 1 /\ Flatten(coin.mask2)[p] = 1 })

\* coincide_mask(mask, mask) = 1.0 for a mask with at least one 1
SelfCoincidence ==
    (coin.mask1 = coin.mask2 /\ TotalOnes(coin.mask2) >= 1) =>
        (~coin.out.nan /\ coin.out.num = coin.out.den /\ coin.out.den > 0)

\* C10 as claimed: coincide_mask(mask, mask) = 1.0 for every mask map with at
\* least one 1, and coincide_mask(m1, m2) is the number of positions that are
\* 1 in both divided by the number of ones of m2, a number in [0, 1].
C10_CoincideInUnitInterval ==
    coin.called =>
        /\ SelfCoincidence
        /\ coin.out.num = BothOnes
        /\ coin.out.den = TotalOnes(coin.mask2)
        /\ InUnitInterval(coin.out)

\* C10 as amended: the same, the result being a number in [0, 1] when m2 has
\* at least one 1; when m2 has none the quotient is 0 / 0, not a number.
C10_Coincide ==
    coin.called =>
        /\ SelfCoincidence
        /\ coin.out.num = BothOnes
        /\ coin.out.den = TotalOnes(coin.mask2)
        /\ TotalOnes(coin.mask2) >= 1 => InUnitInterval(coin.out)
        /\ TotalOnes(coin.mask2) = 0 => coin.out.nan

\* a mask with ones and zeros compared with itself
C10_Witness ==
    /\ coin.called
    /\ coin.mask1 = coin.mask2
    /\ TotalOnes(coin.mask2) = 2
    /\ coin.out.num = 2
    /\ coin.out.den = 2

----------------------------------------------------------------------------
(* fetch_data *)

\* the call runs in balanced mode
Balanced == ft.pc # "idle" /\ ft.mode = 0

\* the number of examples of the source with label c
CountOf(ls, c) == Cardinality({ p \in DOMAIN ls : ls[p] = c })

\* the source holds at least samples_per_class examples of every label
Sufficient ==
    \A c \in 0 .. (ft.num_classes - 1) : CountOf(ft.targets, c) >= ft.samples_per_class

\* the positions of the first n examples with label c, in source order
RECURSIVE FirstOf(_, _, _, _)
FirstOf(ls, c, n, from) ==
    IF n = 0 \/ from > Len(ls) THEN <<>>
    ELSE IF ls[from] = c THEN <<from>> \o FirstOf(ls, c, n - 1, from + 1)
    ELSE FirstOf(ls, c, n, from + 1)

\* the balanced result read off the source: for each label in order, the first
\* samples_per_class examples of that label
RECURSIVE ExpectedFrom(_)
ExpectedFrom(c) ==
    IF c >= ft.num_classes THEN <<>>
    ELSE FirstOf(ft.targets, c, ft.samples_per_class, 1) \o ExpectedFrom(c + 1)

\* C11: in balanced mode, on a source with at least samples_per_class examples
\* of every label, fetch_data does not fail, and what it returns (before any
\* regrouping) is num_classes * samples_per_class aligned inputs and labels, the
\* buckets in label order, each the first samples_per_class examples of its label.
C11_BalancedFetch ==
    (Balanced /\ Sufficient) =>
        /\ ft.pc # "raised"
        /\ ft.pc = "returned" =>
              /\ Len(ft.catX) = ft.num_classes * ft.samples_per_class
              /\ ft.catX = ExpectedFrom(0)
              /\ ft.catY = [p \in DOMAIN ft.catX |-> ft.targets[ft.catX[p]]]

\* the source is exhausted and some bucket was never recognized as full
ExhaustedUnrecognized ==
    /\ Balanced
    /\ ft.pc \in {"loop", "raised"}
    /\ ft.next > Len(ft.source)
    /\ Cardinality(ft.mark) < ft.num_classes

\* C12 as stated: once the source is exhausted with a bucket unrecognized, the
\* call stays in its loop: it never returns and never raises.
C12_ExhaustedHangs == ExhaustedUnrecognized => ft.pc = "loop"

\* C12: once the source is exhausted with a bucket unrecognized, the call ends
\* by raising StopIteration, without a result.
C12_ExhaustedRaises ==
    ExhaustedUnrecognized ~>
        (ft.pc = "raised" /\ ft.raised = "StopIteration" /\ ft.X = None /\ ft.y = None)

\* a call that consumed batches, filled a bucket, and ended on the exhausted source
C12_Witness ==
    /\ ExhaustedUnrecognized
    /\ ft.pc = "raised"
    /\ ft.next > 2
    /\ \E c \in DOMAIN ft.datas : Len(ft.datas[c]) = ft.samples_per_class

\* C13: with dm = 1 the result is the balanced result regrouped: position
\* i * num_classes + j holds the i-th sample of class j, inputs and labels are
\* moved alike, every input is kept once, and every aligned block of
\* num_classes results holds one sample of every class.
C13_Grouped ==
    (Balanced /\ ft.pc = "returned" /\ ft.dm = 1) =>
        /\ Len(ft.X) = Len(ft.catX) /\ Len(ft.y) = Len(ft.catY)
        /\ \A i \in 0 .. (ft.samples_per_class - 1), j \in 0 .. (ft.num_classes - 1) :
              /\ ft.X[i * ft.num_classes + j + 1] = ft.catX[i + j * ft.samples_per_class + 1]
              /\ ft.y[i * ft.num_classes + j + 1] = ft.catY[i + j * ft.samples_per_class + 1]
              /\ ft.y[i * ft.num_classes + j + 1] = j
              /\ ft.X[i * ft.num_classes + j + 1] = FirstOf(ft.targets, j, i + 1, 1)[i + 1]
        /\ \A p \in DOMAIN ft.X : ft.targets[ft.X[p]] = ft.y[p]
        /\ \A p, q \in DOMAIN ft.X : ft.X[p] = ft.X[q] => p = q

\* a regrouped result of two classes with two samples each that differs from
\* the balanced one
C13_Witness ==
    /\ Balanced /\ ft.pc = "returned" /\ ft.dm = 1
    /\ ft.num_classes = 2 /\ ft.samples_per_class = 2
    /\ ft.X # ft.catX

----------------------------------------------------------------------------
(* The rounds of Iterative_pruning and SynFlow *)

\* a step of this kind is one round of the running strategy
RoundOf(fn) == call.fn = fn /\ pc = "rounds"

\* the round ended with new masks
RoundRanked(fn) == RoundOf(fn) /\ pc' \in {"rounds", "ranked"}

\* mm2 has a 0 wherever mm1 has one
Nested(mm1, mm2) ==
    \A l \in DOMAIN mm1 : \A i \in DOMAIN mm1[l] : mm1[l][i] = 0 => mm2[l][i] = 0

\* C14: in non-dynamic Iterative_pruning a position whose mask is 0 before a
\* round has mask 0 after it, whatever the gradients of the round.
C14_NestedMasks ==
    [][(RoundRanked("iterative") /\ ~Truthy(cfg.dynamic)) => Nested(masks, masks')]_vars

\* C15 as stated: every round of Iterative_pruning and SynFlow runs its
\* gradient pass on snapshot * previous mask.
C15_ResetToMaskedSnapshot ==
    [][(RoundOf("iterative") \/ RoundOf("synflow")) => copyW' = Mul(snapW, masks)]_vars

\* C15: every round of Iterative_pruning runs its gradient pass on
\* snapshot * previous mask, every round of SynFlow on |snapshot * previous mask|.
C15_RoundWeights ==
    [][/\ RoundOf("iterative") => copyW' = Mul(snapW, masks)
       /\ RoundOf("synflow") => copyW' = AbsMap(Mul(snapW, masks))]_vars

\* a strategy past its second round whose last pass ran on masked weights
C15_Witness ==
    /\ epoch >= 2
    /\ call.fn \in {"iterative", "synflow"}
    /\ copyW # snapW /\ copyW # AbsMap(snapW)

\* the dynamic flag of the running strategy
Dynamic == IF call.fn = "synflow" THEN call.dynamic ELSE Truthy(cfg.dynamic)

\* a round of Iterative_pruning or SynFlow has scored
Scored == call.fn \in {"iterative", "synflow"} /\ scoreW # None

C18_MaskMapShape ==
    pc = "ranked" =>
        /\ maskKeys = "old_net"
        /\ DOMAIN masks = Layers
        /\ \A l \in Layers :
              /\ Len(masks[l]) = LayerSizes[l]
              /\ \A i \in DOMAIN masks[l] : masks[l][i] \in {0, 1}

----------------------------------------------------------------------------
(* hessian_gradient_product *)

\* a call with a grad_mode of the engine has returned
EngineReturned == eng.pc = "returned" /\ eng.grad_mode \in 0 .. 5

\* the unordered pairs of groups
GroupPairs == { <<a, b>> \in (0 .. (eng.num_group - 1)) \X (0 .. (eng.num_group - 1)) : a < b }

\* C19: a returned call has made one forward pass per group, group i on the
\* positions i*p .. (i+1)*p - 1 with p = floor(N / num_group), all within the N
\* samples; its list has num_group entries in grad_mode 0, 1, 3, 4, 5 and one
\* entry per unordered pair of groups in grad_mode 2, every entry with one
\* tensor per prunable layer.
C19_GroupsAndEntries ==
    EngineReturned =>
        LET p == eng.N \div eng.num_group IN
        /\ Len(eng.slices) = eng.num_group
        /\ \A i \in 0 .. (eng.num_group - 1) :
              /\ eng.slices[i + 1] = [lo |-> i * p, hi |-> (i + 1) * p]
              /\ eng.slices[i + 1].hi <= eng.N
        /\ eng.N - eng.num_group * p \in 0 .. (eng.num_group - 1)
        /\ IF eng.grad_mode = 2
           THEN /\ Len(eng.out) = (eng.num_group * (eng.num_group - 1)) \div 2
                /\ { eng.out[e].of : e \in DOMAIN eng.out } = GroupPairs
           ELSE /\ Len(eng.out) = eng.num_group
                /\ \A i \in 0 .. (eng.num_group - 1) : eng.out[i + 1].of = <<i>>
        /\ \A e \in DOMAIN eng.out : eng.out[e].tensors = NumLayers

\* a returned call of grad_mode 2 on three groups, the samples not a multiple of three
C19_Witness ==
    /\ EngineReturned
    /\ eng.grad_mode = 2 /\ eng.num_group = 3 /\ eng.N = 4
    /\ Len(eng.out) = 3

\* the list of the recorder of the running call
Outputs == eng.lists[Len(eng.lists)]

\* the outputs of forward pass i of the running call, one per prunable layer,
\* in the order the layers ran
PassOutputs(i) == [l \in 1 .. NumLayers |-> [call |-> eng.calls, pass |-> i, layer |-> l]]

\* the outputs of the forward passes 0 .. i - 1 of the running call
RECURSIVE PassesUpTo(_)
PassesUpTo(i) == IF i = 0 THEN <<>> ELSE PassesUpTo(i - 1) \o PassOutputs(i - 1)

\* the running call has made at least one forward pass
Passed == eng.pc \in {"groups", "entries", "return", "returned"} /\ eng.i >= 1

\* C20 as stated: in every grad_mode, after a forward pass the recorder's list
\* holds the outputs of that pass and nothing else.
C20_ClearedEveryPass == Passed => Outputs = PassOutputs(eng.i - 1)

\* C20: in grad_mode 4 and 5, after a forward pass the recorder's list holds
\* the outputs of that pass and nothing else; in the other grad_modes it holds
\* the outputs of every pass of the call so far.
C20_ClearedWhereRead ==
    Passed =>
        IF eng.grad_mode \in RecorderModes
        THEN Outputs = PassOutputs(eng.i - 1)
        ELSE Outputs = PassesUpTo(eng.i)

\* the second call on the network, in grad_mode 5, after its second forward pass
C20_Witness ==
    /\ Passed
    /\ eng.grad_mode = 5 /\ eng.calls = 2 /\ eng.i = 2
    /\ Len(Outputs) = NumLayers

\* a call of grad_mode 4 or 5 on a network where some captured output does not
\* depend on the weight it is differentiated by
MissingPreGrad ==
    /\ eng.grad_mode \in RecorderModes
    /\ eng.missing # {}
    /\ eng.num_group > 0

\* C21: in grad_mode 4 and 5, a call that meets a missing pre-gradient raises
\* no error: it goes on through its groups and, once returned, has made one
\* entry per group with one tensor per prunable layer.
C21_MissingIsZero ==
    MissingPreGrad =>
        /\ eng.pc # "raised"
        /\ eng.pc = "returned" =>
              /\ Len(eng.out) = eng.num_group
              /\ \A e \in DOMAIN eng.out : eng.out[e].tensors = NumLayers

----------------------------------------------------------------------------
(* The score loops *)

\* both loops have run their turn on the layer
BothScored == sl.pc = "scored"

\* weight (.) grad_g at position k
WG(g, k) == sl.weight[k] * sl.gradg_list[g][sl.layer_cnt + 1][k]

\* C22: on the same weight tensor and the same per-group gradient list the
\* two strategies compute the same score of the layer in score_mode 1 to 5:
\* the sum over the groups of weight (.) grad_g in mode 1, its absolute value in
\* mode 2, 1e6 times the product over the groups of |weight (.) grad_g| in mode
\* 3, the square root of the sum over the groups of (weight (.) grad_g 1e6)^2
\* in mode 4, |weight (.) grad| in mode 5; in modes 2 to 5 no value is negative.
C22_SameScores ==
    BothScored =>
        LET G   == DOMAIN sl.gradg_list
            kxt == sl.single.kxt
        IN  /\ sl.single = sl.iterative
            /\ sl.single.raised = "none"
            /\ DOMAIN kxt = DOMAIN sl.weight
            /\ \A k \in DOMAIN kxt :
                  CASE sl.score_mode = 1 ->
                         kxt[k] = Num(SumSeq([g \in G |-> WG(g, k)]), 0, FALSE)
                    [] sl.score_mode = 2 ->
                         kxt[k] = Num(Abs(SumSeq([g \in G |-> WG(g, k)])), 0, FALSE)
                    [] sl.score_mode = 3 ->
                         kxt[k] = Num(ProdSeq([g \in G |-> Abs(WG(g, k))]), 1, FALSE)
                    [] sl.score_mode = 4 ->
                         kxt[k] = Num(SumSeq([g \in G |-> WG(g, k) * WG(g, k)]), 2, TRUE)
                    [] sl.score_mode = 5 ->
                         \E g \in G : kxt[k] = Num(Abs(WG(g, k)), 0, FALSE)
            /\ sl.score_mode \in 2 .. 5 => \A k \in DOMAIN kxt : kxt[k].m >= 0

----------------------------------------------------------------------------
(* The recorders hooked to one network *)

\* the recorder callbacks attached to layer l: register_hooks attaches one to
\* every prunable layer, and every recorder hooked so far has its list
HooksOn(l) == Len(eng.lists)

\* C23: after any number of calls on the same network every prunable layer has
\* at most one recorder callback attached, and the captured outputs retained
\* are those of the latest call only: neither grows with the number of calls.
C23_OneHookPerLayer ==
    /\ \A l \in Layers : HooksOn(l) <= 1
    /\ \A r \in DOMAIN eng.lists : \A o \in DOMAIN eng.lists[r] :
          eng.lists[r][o].call = eng.calls

====
